---- MODULE Spec2Model ----
(***************************************************************************)
(* SNBit Uploader (src/src/snbit_uploader.py): the request handlers of the *)
(* single-threaded HTTPServer and the filesystem they act on.              *)
(*                                                                         *)
(* Text and bytes are sequences of one-character strings.  A few literal   *)
(* substrings that the handlers only ever compare as a whole               *)
(* ("Content-Disposition:", "filename=", "multipart/form-data", the        *)
(* carriage return "CR", the line feed "LF", ...) are kept as one element. *)
(***************************************************************************)
EXTENDS Integers, Sequences, FiniteSets, TLC

VARIABLES
    fs,        \* the filesystem: canonical absolute path -> bytes of the regular file
    before,    \* the filesystem as the last handler found it
    req,       \* the request the last handler served
    resp,      \* the response it sent
    log,       \* the filesystem calls it made, in order
    fname,     \* input of the is_allowed_file evaluation (SpecAllowed)
    allowed,   \* its results
    file_size,   \* input of the format_file_size evaluation (SpecSize)
    formatted,   \* its result
    conns,     \* the clients' connections (SpecServe): where each stands
    backlog,   \* the connections the listening socket holds, not yet accepted, in order
    serving    \* the connection whose handler the server runs, 0 when it runs none

\* what the request handlers read and write
handlerVars == <<fs, before, req, resp, log>>

\* what they leave alone
otherVars == <<fname, allowed, file_size, formatted, conns, backlog, serving>>

\* what the accept loop of the server reads and writes
serveVars == <<conns, backlog, serving>>

vars == <<fs, before, req, resp, log, fname, allowed, file_size, formatted,
          conns, backlog, serving>>

-----------------------------------------------------------------------------
(* Bounds of the model *)

\* uploads are accepted while the storage root holds fewer regular files than this
MaxFiles == 3

\* longest name enumerated for is_allowed_file
MaxNameLen == 4

\* format_file_size is evaluated for the sizes within this many bytes of a unit boundary
MaxOffset == 64

\* the clients that connect to the server
MaxClients == 3

-----------------------------------------------------------------------------
(* str / bytes methods used by the handlers *)

CR == "CR"
LF == "LF"

UpperChars == <<"A","B","C","D","E","F","G","H","I","J","K","L","M",
                "N","O","P","Q","R","S","T","U","V","W","X","Y","Z">>
LowerChars == <<"a","b","c","d","e","f","g","h","i","j","k","l","m",
                "n","o","p","q","r","s","t","u","v","w","x","y","z">>

LowerChar(c) ==
    IF \E i \in 1..26 : UpperChars[i] = c
    THEN LowerChars[CHOOSE i \in 1..26 : UpperChars[i] = c]
    ELSE c

UpperChar(c) ==
    IF \E i \in 1..26 : LowerChars[i] = c
    THEN UpperChars[CHOOSE i \in 1..26 : LowerChars[i] = c]
    ELSE c

\* str.lower()
lower(s) == [i \in 1..Len(s) |-> LowerChar(s[i])]

\* str.upper()
upper(s) == [i \in 1..Len(s) |-> UpperChar(s[i])]

\* s[n:]
Drop(s, n) == SubSeq(s, n + 1, Len(s))

\* s[:n]
Take(s, n) == SubSeq(s, 1, n)

\* str.startswith(p)
startswith(s, p) == Len(p) <= Len(s) /\ Take(s, Len(p)) = p

\* str.endswith(p)
endswith(s, p) == Len(p) <= Len(s) /\ Drop(s, Len(s) - Len(p)) = p

\* s.find(sub): the lowest index (0-based) where sub starts, -1 if none
RECURSIVE FindFrom(_, _, _)
FindFrom(s, sub, i) ==
    IF i + Len(sub) > Len(s) THEN -1
    ELSE IF SubSeq(s, i + 1, i + Len(sub)) = sub THEN i
    ELSE FindFrom(s, sub, i + 1)

find(s, sub) == FindFrom(s, sub, 0)

\* s.split(sep), sep non-empty: the list of the pieces between occurrences of sep
RECURSIVE split(_, _)
split(s, sep) ==
    LET i == find(s, sep)
    IN  IF i = -1 THEN <<s>>
        ELSE <<Take(s, i)>> \o split(Drop(s, i + Len(sep)), sep)

\* s.rstrip(chars): drop every trailing element that is in chars
RECURSIVE rstrip(_, _)
rstrip(s, chars) ==
    IF s # <<>> /\ s[Len(s)] \in chars THEN rstrip(Take(s, Len(s) - 1), chars) ELSE s

\* s.lstrip(chars)
RECURSIVE lstrip(_, _)
lstrip(s, chars) ==
    IF s # <<>> /\ s[1] \in chars THEN lstrip(Tail(s), chars) ELSE s

\* s.strip(chars)
strip(s, chars) == lstrip(rstrip(s, chars), chars)

\* the characters str.strip() and bytes.strip() remove by default
Whitespace == {" ", CR, LF}

\* sep.join(list)
RECURSIVE joinWith(_, _)
joinWith(list, sep) ==
    IF list = <<>> THEN <<>>
    ELSE IF Len(list) = 1 THEN list[1]
    ELSE list[1] \o sep \o joinWith(Tail(list), sep)

-----------------------------------------------------------------------------
(* Configuration *)

\* UPLOAD_DIR, the storage root
UPLOAD_DIR == <<"/", "u", "p">>

\* MAX_FILE_SIZE, read from SNBIT_MAX_FILE_SIZE; small here so that a part can exceed it
MAX_FILE_SIZE == 3

\* the size of the pieces a download is read and written in (8192 in the source);
\* small here, and below MAX_FILE_SIZE as there, so that a stored file spans several
CHUNK_SIZE == 2

\* ALLOWED_EXTENSIONS
ALLOWED_EXTENSIONS ==
    { <<".", "t", "x", "t">>, <<".", "p", "d", "f">>, <<".", "p", "n", "g">>,
      <<".", "j", "p", "g">>, <<".", "j", "p", "e", "g">>, <<".", "g", "i", "f">>,
      <<".", "z", "i", "p">>, <<".", "d", "o", "c", "x">>, <<".", "m", "p", "4">>,
      <<".", "m", "p", "3">> }

-----------------------------------------------------------------------------
(* urllib.parse.unquote *)

\* the escapes that decode to a character of the model's alphabet; every other
\* escape is outside the requests enumerated here
PercentCodes ==
    { <<<<"2", "e">>, ".">>, <<<<"2", "E">>, ".">>, <<<<"2", "f">>, "/">>,
      <<<<"2", "F">>, "/">>, <<<<"4", "1">>, "A">>, <<<<"2", "5">>, "%">> }

IsEscapeAt(s, i) ==
    /\ s[i] = "%"
    /\ i + 2 <= Len(s)
    /\ \E pc \in PercentCodes : pc[1] = <<s[i + 1], s[i + 2]>>

RECURSIVE unquote(_)
unquote(s) ==
    IF s = <<>> THEN <<>>
    ELSE IF IsEscapeAt(s, 1)
         THEN <<(CHOOSE pc \in PercentCodes : pc[1] = <<s[2], s[3]>>)[2]>> \o unquote(Drop(s, 3))
         ELSE <<s[1]>> \o unquote(Tail(s))

-----------------------------------------------------------------------------
(* os.path (posixpath) *)

SEP == <<"/">>

\* os.path.join(a, p)
os_path_join(a, p) ==
    IF startswith(p, SEP) THEN p
    ELSE IF a = <<>> \/ endswith(a, SEP) THEN a \o p
    ELSE a \o SEP \o p

\* the loop of posixpath.normpath over the components
RECURSIVE NormComps(_, _, _)
NormComps(comps, acc, rooted) ==
    IF comps = <<>> THEN acc
    ELSE LET c == Head(comps)
         IN  IF c = <<>> \/ c = <<".">>
             THEN NormComps(Tail(comps), acc, rooted)
             ELSE IF \/ c # <<".", ".">>
                     \/ (~rooted /\ acc = <<>>)
                     \/ (acc # <<>> /\ acc[Len(acc)] = <<".", ".">>)
             THEN NormComps(Tail(comps), Append(acc, c), rooted)
             ELSE IF acc # <<>>
             THEN NormComps(Tail(comps), Take(acc, Len(acc) - 1), rooted)
             ELSE NormComps(Tail(comps), acc, rooted)

\* os.path.normpath(path)
os_path_normpath(path) ==
    IF path = <<>> THEN <<".">>
    ELSE LET slashes == IF ~startswith(path, SEP) THEN 0
                        ELSE IF startswith(path, <<"/", "/">>) /\ ~startswith(path, <<"/", "/", "/">>)
                             THEN 2 ELSE 1
             comps   == NormComps(split(path, SEP), <<>>, slashes # 0)
             joined  == [i \in 1..slashes |-> "/"] \o joinWith(comps, SEP)
         IN  IF joined = <<>> THEN <<".">> ELSE joined

\* os.path.abspath(path); every path the handlers build starts with the absolute
\* UPLOAD_DIR or is absolute itself, so the working directory is never prepended
os_path_abspath(path) == os_path_normpath(path)

\* os.path.basename left out: the filename is used as the client sent it
os_path_basename_Keep(p) == p

\* os.path.basename(p): what follows the last slash
os_path_basename(p) ==
    LET slashes == {i \in 1..Len(p) : p[i] = "/"}
    IN  IF slashes = {} THEN p
        ELSE Drop(p, CHOOSE i \in slashes : \A j \in slashes : j <= i)

\* os.path.splitext(p): <<root, ext>>; the extension starts at the last dot of the
\* last component, unless that component has only leading dots before it
os_path_splitext(p) ==
    LET slashes == {i \in 1..Len(p) : p[i] = "/"}
        sepIdx  == IF slashes = {} THEN 0 ELSE CHOOSE i \in slashes : \A j \in slashes : j <= i
        dots    == {i \in (sepIdx + 1)..Len(p) : p[i] = "."}
        dotIdx  == IF dots = {} THEN 0 ELSE CHOOSE i \in dots : \A j \in dots : j <= i
    IN  IF dotIdx > sepIdx /\ \E k \in (sepIdx + 1)..(dotIdx - 1) : p[k] # "."
        THEN <<Take(p, dotIdx - 1), Drop(p, dotIdx - 1)>>
        ELSE <<p, <<>>>>

-----------------------------------------------------------------------------
(* The filesystem as the kernel resolves paths *)

\* the directories: the parent of the storage root, the storage root (made by
\* os.makedirs at start-up), a sibling whose name extends the root's, and a
\* subdirectory of the root.  No handler creates or removes a directory.
Dirs == { <<"/">>, UPLOAD_DIR, <<"/", "u", "p", "_", "o">>, UPLOAD_DIR \o <<"/", "d">> }

NoPath == <<>>

CanonPath(comps) == SEP \o joinWith(comps, SEP)

CompsOf(path) == SelectSeq(split(path, SEP), LAMBDA c : c # <<>>)

\* the path walk of an absolute path: the canonical path it names, or NoPath when a
\* component that must be a directory is not one
RECURSIVE Walk(_, _)
Walk(cur, comps) ==
    IF comps = <<>> THEN CanonPath(cur)
    ELSE IF CanonPath(cur) \notin Dirs THEN NoPath
    ELSE LET c == Head(comps)
         IN  IF c = <<>> \/ c = <<".">> THEN Walk(cur, Tail(comps))
             ELSE IF c = <<".", ".">>
             THEN Walk(IF cur = <<>> THEN cur ELSE Take(cur, Len(cur) - 1), Tail(comps))
             ELSE Walk(Append(cur, c), Tail(comps))

Resolve(path) == IF startswith(path, SEP) THEN Walk(<<>>, Tail(split(path, SEP))) ELSE NoPath

\* os.path.exists(path), for the canonical path at that path resolves to
os_path_exists(f, at) == at \in Dirs \/ at \in DOMAIN f

\* os.path.isfile(path), likewise
os_path_isfile(f, at) == at \in DOMAIN f

\* the path is strictly below the storage root
InsideRoot(p) == startswith(p, UPLOAD_DIR \o SEP) /\ Len(p) > Len(UPLOAD_DIR) + 1

\* the path names an entry directly in the storage root
DirectlyInRoot(p) ==
    /\ InsideRoot(p)
    /\ \A i \in (Len(UPLOAD_DIR) + 2)..Len(p) : p[i] # "/"

\* the regular files directly under the storage root
RootFiles(f) == {p \in DOMAIN f : DirectlyInRoot(p)}

\* a filesystem call as the log records it: the call, the path it was given and the
\* canonical path the kernel resolved it to
Call(op, path, at) == [op |-> op, arg |-> path, at |-> at]

\* os.remove left out: the file stays
Remove_Nothing(f, p) == f

\* f without the file at canonical path p
Remove(f, p) == [q \in DOMAIN f \ {p} |-> f[q]]

\* f with the bytes b in the file at canonical path p
Store(f, p, b) == [q \in DOMAIN f \cup {p} |-> IF q = p THEN b ELSE f[q]]

-----------------------------------------------------------------------------
(* Requests and responses *)

NoReq == [method |-> "", path |-> <<>>, ctype |-> <<>>, clen |-> 0, parts |-> <<>>, io |-> <<>>]

GetReq(path) == [NoReq EXCEPT !.method = "GET", !.path = path]

\* a GET whose handler meets the outcome out of its open or remove
GetReqIo(path, out) == [NoReq EXCEPT !.method = "GET", !.path = path, !.io = <<out>>]

\* a response as the client receives it: the status line, the Location and
\* Content-Length headers, the body and the pieces it was written in, the fields of
\* the JSON answer of an upload, late: the status line that send_error writes
\* after the headers of the response have already gone out (0 when it writes none),
\* and the file list of the main page with the two links of each file
NoResp == [status |-> 0, location |-> <<>>, clen |-> 0, body |-> <<>>, chunks |-> <<>>,
           success |-> FALSE, uploaded |-> <<>>, errors |-> <<>>, json |-> FALSE,
           late |-> 0, files |-> <<>>, links |-> <<>>]

\* self.send_error(code, ...)
send_error(code) == [NoResp EXCEPT !.status = code]

-----------------------------------------------------------------------------
(* GET /download/<name> and GET /delete/<name> *)

DownloadPrefix == <<"/", "d", "o", "w", "n", "l", "o", "a", "d", "/">>
DeletePrefix   == <<"/", "d", "e", "l", "e", "t", "e", "/">>

\* the "security check" of both handlers
SecurityCheck(filepath) == startswith(os_path_abspath(filepath), os_path_abspath(UPLOAD_DIR))

\* the first lines of both handlers and what their later path computations give:
\* the name taken from the request path after its n-character prefix, the path
\* joined to the storage root, the canonical path the kernel resolves it to and the
\* verdict of the security check
Locate(path, n) ==
    LET filename == unquote(Drop(path, n))
        filepath == os_path_join(UPLOAD_DIR, filename)
    IN  [filename |-> filename, filepath |-> filepath, at |-> Resolve(filepath),
         within |-> SecurityCheck(filepath)]

\* the os.path.exists and os.path.isfile calls of "if not exists or not isfile"
Probe(f, w) ==
    IF os_path_exists(f, w.at)
    THEN <<Call("exists", w.filepath, w.at), Call("isfile", w.filepath, w.at)>>
    ELSE <<Call("exists", w.filepath, w.at)>>

\* the handler gets as far as open(filepath, 'rb') or os.remove(filepath)
Passes(f, w) == os_path_exists(f, w.at) /\ os_path_isfile(f, w.at) /\ w.within

\* the loop with one read only: what is left after the first piece is not sent
ReadChunks_FirstOnly(data) ==
    IF data = <<>> THEN <<>>
    ELSE <<Take(data, IF Len(data) < CHUNK_SIZE THEN Len(data) ELSE CHUNK_SIZE)>>

\* the loop "data = f.read(8192) ... self.wfile.write(data)": the pieces written
RECURSIVE ReadChunks(_)
ReadChunks(data) ==
    IF data = <<>> THEN <<>>
    ELSE <<Take(data, IF Len(data) < CHUNK_SIZE THEN Len(data) ELSE CHUNK_SIZE)>> \o
         ReadChunks(Drop(data, CHUNK_SIZE))

\* the bytes of the pieces in the order written
RECURSIVE Written(_)
Written(chunks) == IF chunks = <<>> THEN <<>> ELSE Head(chunks) \o Written(Tail(chunks))

\* serve_file_download, w the location of the request path, out the outcome of
\* open(filepath, 'rb') ("ok", or "open" when it raises): <<response, filesystem calls>>.
\* The status line and the headers are sent before the file is opened, so when open
\* raises, the 500 that the except clause sends follows them on the connection.
serve_file_download(f, w, out) ==
    IF ~os_path_exists(f, w.at) \/ ~os_path_isfile(f, w.at)
    THEN <<send_error(404), Probe(f, w)>>
    ELSE IF ~w.within
    THEN <<send_error(403), Append(Probe(f, w), Call("check", w.filepath, w.at))>>
    ELSE LET calls == Probe(f, w) \o <<Call("check", w.filepath, w.at),
                                       Call("getsize", w.filepath, w.at),
                                       Call("open_rb", w.filepath, w.at)>>
             chunks == ReadChunks(f[w.at])
         IN  IF out = "ok"
             THEN <<[NoResp EXCEPT !.status = 200, !.clen = Len(f[w.at]),
                                    !.chunks = chunks, !.body = Written(chunks)], calls>>
             ELSE <<[NoResp EXCEPT !.status = 200, !.clen = Len(f[w.at]), !.late = 500], calls>>

\* delete_file, out the outcome of os.remove(filepath) ("ok", or "remove" when it
\* raises): <<response, filesystem calls, filesystem afterwards>>
delete_file(f, w, out) ==
    IF ~os_path_exists(f, w.at) \/ ~os_path_isfile(f, w.at)
    THEN <<send_error(404), Probe(f, w), f>>
    ELSE IF ~w.within
    THEN <<send_error(403), Append(Probe(f, w), Call("check", w.filepath, w.at)), f>>
    ELSE LET calls == Probe(f, w) \o <<Call("check", w.filepath, w.at),
                                       Call("remove", w.filepath, w.at)>>
         IN  IF out = "ok"
             THEN <<[NoResp EXCEPT !.status = 302, !.location = SEP], calls, Remove(f, w.at)>>
             ELSE <<send_error(500), calls, f>>

-----------------------------------------------------------------------------
(* Helpers of the upload handler *)

\* is_allowed_file without .lower(): the comparison is case-sensitive
is_allowed_file_CaseSensitive(filename) ==
    \E ext \in ALLOWED_EXTENSIONS : endswith(filename, ext)

\* is_allowed_file(filename)
is_allowed_file(filename) ==
    \E ext \in ALLOWED_EXTENSIONS : endswith(lower(filename), ext)

DigitChars == <<"0", "1", "2", "3", "4", "5", "6", "7", "8", "9">>

\* str(n) for n >= 0
RECURSIVE ToStr(_)
ToStr(n) == IF n < 10 THEN <<DigitChars[n + 1]>> ELSE ToStr(n \div 10) \o <<DigitChars[(n % 10) + 1]>>

size_names == <<"B", "KB", "MB", "GB">>

\* the loop of format_file_size: the unit index reached from size_bytes / 1024^i
RECURSIVE UnitIndex(_, _)
UnitIndex(size_bytes, i) ==
    IF size_bytes >= 1024 /\ i < Len(size_names) - 1
    THEN UnitIndex(size_bytes \div 1024, i + 1)
    ELSE i

RECURSIVE Pow1024(_)
Pow1024(i) == IF i = 0 THEN 1 ELSE 1024 * Pow1024(i - 1)

\* f"{x:.1f}" for x = num / den, den a power of 1024 (the float x holds the quotient
\* exactly): the tenths of x rounded to nearest, ties to even.  With den = 1024 * g
\* and num = whole * den + a * g + b, 10 * (a * g + b) = u * g + v below, so that
\* no product leaves the range of the integers for a size below 2^31.
Tenths(num, den) ==
    IF den = 1 THEN 10 * num
    ELSE LET g == den \div 1024
             whole == num \div den
             a == (num % den) \div g
             b == (num % den) % g
             u == 10 * a + (10 * b) \div g
             v == (10 * b) % g
             q == 10 * whole + u \div 1024
             w == u % 1024
         IN  IF w > 512 \/ (w = 512 /\ v > 0) \/ (w = 512 /\ v = 0 /\ q % 2 = 1)
             THEN q + 1 ELSE q

\* format_file_size(size_bytes)
format_file_size(size_bytes) ==
    IF size_bytes = 0 THEN <<"0", "B">>
    ELSE LET i == UnitIndex(size_bytes, 0)
             t == Tenths(size_bytes, Pow1024(i))
         IN  ToStr(t \div 10) \o <<".">> \o ToStr(t % 10) \o <<" ">> \o <<size_names[i + 1]>>

-----------------------------------------------------------------------------
(* GET /: the main page *)

\* the characters of the model in the order of their code points
CodePoints ==
    <<"%", ".", "/", "0", "1", "2", "3", "4", "5", "6", "7", "8", "9">> \o UpperChars \o
    <<"_">> \o LowerChars

\* ord(c), up to an order-preserving renumbering
ord(c) == CHOOSE i \in 1..Len(CodePoints) : CodePoints[i] = c

\* a < b of two str
RECURSIVE StrLess(_, _)
StrLess(a, b) ==
    IF b = <<>> THEN FALSE
    ELSE IF a = <<>> THEN TRUE
    ELSE IF Head(a) = Head(b) THEN StrLess(Tail(a), Tail(b))
    ELSE ord(Head(a)) < ord(Head(b))

\* the key with .lower() left out
SortKey_AsIs(file_info) == file_info.name

\* key=lambda x: x['name'].lower()
SortKey(file_info) == lower(file_info.name)

\* files.sort(key=...): list.sort is stable, an element goes after those of equal key
RECURSIVE Insert(_, _)
Insert(sorted, x) ==
    IF sorted = <<>> THEN <<x>>
    ELSE IF StrLess(SortKey(x), SortKey(Head(sorted))) THEN <<x>> \o sorted
    ELSE <<Head(sorted)>> \o Insert(Tail(sorted), x)

RECURSIVE sort(_)
sort(files) ==
    IF files = <<>> THEN <<>>
    ELSE Insert(sort(Take(files, Len(files) - 1)), files[Len(files)])

\* the entries of the storage root, files and directories: what os.listdir(UPLOAD_DIR)
\* returns, in an order the filesystem chooses
Entries(f) ==
    {Drop(q, Len(UPLOAD_DIR) + 1) : q \in {q \in DOMAIN f \cup Dirs : DirectlyInRoot(q)}}

\* the entries in one order
RECURSIVE SomeOrder(_)
SomeOrder(S) ==
    IF S = {} THEN <<>>
    ELSE LET x == CHOOSE x \in S : TRUE IN <<x>> \o SomeOrder(S \ {x})

\* the orders os.listdir is taken to return the entries in: one order and its reverse
Orders(S) ==
    LET o == SomeOrder(S)
    IN  {o, [i \in 1..Len(o) |-> o[Len(o) + 1 - i]]}

\* the loop over os.listdir(UPLOAD_DIR)
RECURSIVE ListFiles(_, _)
ListFiles(f, names) ==
    IF names = <<>> THEN <<>>
    ELSE LET filename == Head(names)
             filepath == os_path_join(UPLOAD_DIR, filename)
             at == Resolve(filepath)
         IN  (IF os_path_isfile(f, at)
              THEN <<[name |-> filename, size |-> format_file_size(Len(f[at])),
                      size_bytes |-> Len(f[at])]>>
              ELSE <<>>) \o ListFiles(f, Tail(names))

\* the href of the Download and of the Delete link of each file of the list
Links(files) ==
    [i \in 1..Len(files) |-> [download |-> DownloadPrefix \o files[i].name,
                             delete |-> DeletePrefix \o files[i].name]]

\* serve_main_page, listdir what os.listdir returns
serve_main_page(f, listdir) ==
    LET files == sort(ListFiles(f, listdir))
    IN  [NoResp EXCEPT !.status = 200, !.files = files, !.links = Links(files)]

-----------------------------------------------------------------------------
(* POST /: the multipart upload *)

CRLF == <<CR, LF>>

\* the boundary= parameter of the Content-Type header, <<>> when there is none
RECURSIVE BoundaryOf(_)
BoundaryOf(params) ==
    IF params = <<>> THEN <<>>
    ELSE LET part == strip(Head(params), Whitespace)
         IN  IF startswith(part, <<"boundary=">>)
             THEN strip(Tail(part), {"\""})
             ELSE BoundaryOf(Tail(params))

\* the filename= parameter of one Content-Disposition line, or prev when it has none
RECURSIVE FilenameParam(_, _)
FilenameParam(ps, prev) ==
    IF ps = <<>> THEN prev
    ELSE LET p == strip(Head(ps), Whitespace)
         IN  IF startswith(p, <<"filename=">>)
             THEN strip(Tail(p), {"\""})
             ELSE FilenameParam(Tail(ps), prev)

\* the loop over the header lines: the filename of the part, <<>> for None
RECURSIVE FilenameOf(_, _)
FilenameOf(lines, prev) ==
    IF lines = <<>> THEN prev
    ELSE IF startswith(Head(lines), <<"Content-Disposition:">>)
         THEN FilenameOf(Tail(lines), FilenameParam(split(Head(lines), <<";">>), prev))
         ELSE FilenameOf(Tail(lines), prev)

\* the collision loop left out: the name is used whether or not it exists
FreeName_NoProbe(f, original_filename, filename, counter, calls) == <<filename, calls>>

\* the collision loop: <<the first of original, name_1ext, name_2ext, ... that does
\* not exist, the os.path.exists calls made>>
RECURSIVE FreeName(_, _, _, _, _)
FreeName(f, original_filename, filename, counter, calls) ==
    LET filepath == os_path_join(UPLOAD_DIR, filename)
        at == Resolve(filepath)
    IN  IF os_path_exists(f, at)
        THEN LET ne == os_path_splitext(original_filename)
             IN  FreeName(f, original_filename, ne[1] \o <<"_">> \o ToStr(counter) \o ne[2],
                          counter + 1, Append(calls, Call("exists", filepath, at)))
        ELSE <<filename, Append(calls, Call("exists", filepath, at))>>

\* the outcome of the n-th open(filepath, 'wb') ... f.write(file_data) of a request:
\* "ok", "open" (open raises, nothing is created) or "write" (the file is created
\* and write raises before the last byte)
IoAt(io, n) == IF n <= Len(io) THEN io[n] ELSE "ok"

\* the state the loop over the parts carries
PostState(f) == [f |-> f, uploaded |-> <<>>, errors |-> <<>>, calls |-> <<>>, writes |-> 0]

\* the loop body without "if header_end == -1: continue": the slices are taken with
\* header_end = -1 as Python takes them, part[:-1] and part[3:]
ParsePart_NoSeparatorCheck(part) ==
    IF strip(part, Whitespace) = <<>> THEN [skip |-> TRUE, filename |-> <<>>, file_data |-> <<>>]
    ELSE LET header_end == find(part, CRLF \o CRLF)
             headers_section == IF header_end = -1 THEN Take(part, Len(part) - 1)
                                ELSE Take(part, header_end)
             file_data == rstrip(Drop(part, header_end + 4), {CR, LF})
             filename == FilenameOf(split(headers_section, CRLF), <<>>)
         IN  [skip |-> (filename = <<>> \/ file_data = <<>>),
              filename |-> filename, file_data |-> file_data]

\* the loop body up to "if not filename or not file_data: continue": what one
\* segment of the body holds
ParsePart(part) ==
    IF strip(part, Whitespace) = <<>> THEN [skip |-> TRUE, filename |-> <<>>, file_data |-> <<>>]
    ELSE LET header_end == find(part, CRLF \o CRLF)
         IN  IF header_end = -1 THEN [skip |-> TRUE, filename |-> <<>>, file_data |-> <<>>]
             ELSE LET headers_section == Take(part, header_end)
                      file_data == rstrip(Drop(part, header_end + 4), {CR, LF})
                      filename == FilenameOf(split(headers_section, CRLF), <<>>)
                  IN  [skip |-> (filename = <<>> \/ file_data = <<>>),
                       filename |-> filename, file_data |-> file_data]

\* open(filepath, 'wb') and f.write(file_data), with the outcome out
SaveFile(st, final, file_data, out) ==
    LET filepath == os_path_join(UPLOAD_DIR, final)
        target == Resolve(filepath)
        failed == Append(st.errors, <<"Error saving ">> \o final \o <<": ", "OSError">>)
        opened == Append(st.calls, Call("open_wb", filepath, target))
    IN  IF target = NoPath \/ target \in Dirs \/ out = "open"
        THEN [st EXCEPT !.errors = failed, !.calls = opened, !.writes = @ + 1]
        ELSE IF out = "ok"
        THEN [st EXCEPT !.f = Store(@, target, file_data),
                        !.uploaded = Append(@, final),
                        !.calls = opened,
                        !.writes = @ + 1]
        ELSE [st EXCEPT !.f = Store(@, target, Take(file_data, Len(file_data) - 1)),
                        !.errors = failed,
                        !.calls = opened,
                        !.writes = @ + 1]

\* the loop body from os.path.basename to the size check: the name the part is
\* validated under and the error the validation appends, <<>> when it passes
CheckPart(pp) ==
    LET filename == os_path_basename(pp.filename)
    IN  [skip |-> pp.skip, filename |-> filename, file_data |-> pp.file_data,
         error |-> IF pp.skip THEN <<>>
                   ELSE IF ~is_allowed_file(filename)
                   THEN <<"File type not allowed: ">> \o filename
                   ELSE IF Len(pp.file_data) > MAX_FILE_SIZE
                   THEN <<"File too large: ">> \o filename \o <<" (">>
                        \o format_file_size(Len(pp.file_data)) \o <<")">>
                   ELSE <<>>]

\* the loop body without the "continue" after a validation error: the error is
\* recorded and the part is stored all the same
ProcessPart_NoContinue(st, cp, io) ==
    IF cp.skip THEN st
    ELSE LET free == FreeName(st.f, cp.filename, cp.filename, 1, <<>>)
             noted == IF cp.error # <<>> THEN [st EXCEPT !.errors = Append(@, cp.error)] ELSE st
         IN  SaveFile([noted EXCEPT !.calls = @ \o free[2]], free[1],
                      cp.file_data, IoAt(io, st.writes + 1))

\* the loop body for one part, cp what CheckPart found of it
ProcessPart(st, cp, io) ==
    IF cp.skip THEN st
    ELSE IF cp.error # <<>> THEN [st EXCEPT !.errors = Append(@, cp.error)]
    ELSE LET free == FreeName(st.f, cp.filename, cp.filename, 1, <<>>)
         IN  SaveFile([st EXCEPT !.calls = @ \o free[2]], free[1],
                      cp.file_data, IoAt(io, st.writes + 1))

\* for part in parts[1:-1]
RECURSIVE ProcessParts(_, _, _)
RECURSIVE ProcessParts_StopAtError(_, _, _)
\* the loop with the first error ending it: the parts after a failing one are dropped
ProcessParts_StopAtError(st, cps, io) ==
    IF cps = <<>> \/ st.errors # <<>> THEN st
    ELSE ProcessParts_StopAtError(ProcessPart(st, Head(cps), io), Tail(cps), io)

ProcessParts(st, cps, io) ==
    IF cps = <<>> THEN st
    ELSE ProcessParts(ProcessPart(st, Head(cps), io), Tail(cps), io)

\* the response with the status always 200
UploadResponse_Always200(st) ==
    [NoResp EXCEPT !.status = 200,
                   !.json = TRUE,
                   !.success = Len(st.uploaded) > 0,
                   !.uploaded = st.uploaded,
                   !.errors = st.errors]

\* the JSON response
UploadResponse(st) ==
    [NoResp EXCEPT !.status = IF st.errors = <<>> THEN 200 ELSE 207,
                   !.json = TRUE,
                   !.success = Len(st.uploaded) > 0,
                   !.uploaded = st.uploaded,
                   !.errors = st.errors,
                   !.body = <<"Uploaded ">> \o ToStr(Len(st.uploaded)) \o <<" files">> \o
                            (IF st.errors # <<>>
                             THEN <<", ">> \o ToStr(Len(st.errors)) \o <<" errors">> ELSE <<>>)]

\* do_POST up to the loop without the "No content" check
ReadRequest_NoLengthCheck(content_type, content_length, sent) ==
    IF ~startswith(content_type, <<"multipart/form-data">>)
    THEN [status |-> 400, parts |-> <<>>]
    ELSE LET boundary == BoundaryOf(split(content_type, <<";">>))
         IN  IF boundary = <<>> THEN [status |-> 400, parts |-> <<>>]
             ELSE LET body == Take(sent, content_length)
                      parts == split(body, <<"-", "-">> \o boundary)
                      inner == SubSeq(parts, 2, Len(parts) - 1)
                  IN  [status |-> 0, parts |-> [i \in 1..Len(inner) |-> CheckPart(ParsePart(inner[i]))]]

\* do_POST up to the loop: the status of an early refusal (0 when there is none) and
\* the segments parts[1:-1] of the body, each parsed and validated
ReadRequest(content_type, content_length, sent) ==
    IF ~startswith(content_type, <<"multipart/form-data">>)
    THEN [status |-> 400, parts |-> <<>>]
    ELSE LET boundary == BoundaryOf(split(content_type, <<";">>))
         IN  IF boundary = <<>> THEN [status |-> 400, parts |-> <<>>]
             ELSE IF content_length = 0 THEN [status |-> 400, parts |-> <<>>]
             ELSE LET body == Take(sent, content_length)
                      boundary_bytes == <<"-", "-">> \o boundary
                      parts == split(body, boundary_bytes)
                      inner == SubSeq(parts, 2, Len(parts) - 1)
                  IN  [status |-> 0, parts |-> [i \in 1..Len(inner) |-> CheckPart(ParsePart(inner[i]))]]

\* do_POST: <<response, filesystem calls, filesystem afterwards>>
do_POST(f, rd, io) ==
    IF rd.status # 0 THEN <<send_error(rd.status), <<>>, f>>
    ELSE LET st == ProcessParts(PostState(f), rd.parts, io)
         IN  <<UploadResponse(st), st.calls, st.f>>

-----------------------------------------------------------------------------
(* The clients: the requests enumerated *)

\* names
N_a_txt   == <<"a", ".", "t", "x", "t">>
N_a_1_txt == <<"a", "_", "1", ".", "t", "x", "t">>
N_v_exe   == <<"v", ".", "e", "x", "e">>
N_up2     == <<".", ".", "/", ".", ".", "/", "a", ".", "t", "x", "t">>
N_abs     == <<"/", "e", "t", "c", "/", "a", ".", "t", "x", "t">>
N_sub     == <<"d", "/", "a", ".", "t", "x", "t">>
N_dot_txt == <<".", "t", "x", "t">>
N_pct     == <<"a", "%", "4", "1", ".", "t", "x", "t">>

\* a part as the client composes it: a file part (a filename and its content), a
\* plain form field (no filename), or a segment without the blank line
FilePart(filename, content) == [kind |-> "file", filename |-> filename, content |-> content]
FieldPart(content) == [kind |-> "field", filename |-> <<>>, content |-> content]
NoSepPart(filename, content) == [kind |-> "nosep", filename |-> filename, content |-> content]

Disposition(p) ==
    <<"Content-Disposition:", " ", "form-data", ";", " ">> \o
    (IF p.kind = "field" THEN <<"name=", "\"", "n", "\"">>
     ELSE <<"name=", "\"", "f", "\"", ";", " ", "filename=", "\"">> \o p.filename \o <<"\"">>)

\* the bytes of one part, from the end of its delimiter to the next delimiter
EncodePart(p) ==
    CRLF \o Disposition(p) \o CRLF \o
    (IF p.kind = "file" THEN <<"Content-Type:", " ", "application/octet-stream">> \o CRLF ELSE <<>>) \o
    (IF p.kind = "nosep" THEN <<>> ELSE CRLF) \o
    p.content \o CRLF

RECURSIVE EncodeParts(_, _)
EncodeParts(ps, boundary) ==
    IF ps = <<>> THEN <<>>
    ELSE <<"-", "-">> \o boundary \o EncodePart(Head(ps)) \o EncodeParts(Tail(ps), boundary)

\* the multipart body of the parts ps
EncodeBody(ps, boundary) == EncodeParts(ps, boundary) \o <<"-", "-">> \o boundary \o <<"-", "-">> \o CRLF

ClientBoundary == <<"X">>

CT_multipart  == <<"multipart/form-data", ";", " ", "boundary=">> \o ClientBoundary
CT_noboundary == <<"multipart/form-data">>
CT_json       == <<"application/json">>

\* the parts the uploads are made of
P_a_h == FilePart(N_a_txt, <<"h">>)
P_a_k == FilePart(N_a_txt, <<"k">>)
P_exe == FilePart(N_v_exe, <<"h">>)
P_big == FilePart(N_a_txt, <<"h", "h", "h", "h">>)
P_lf  == FilePart(N_a_txt, <<"h", LF>>)
P_hkh == FilePart(N_a_txt, <<"h", "k", "h">>)
P_nl  == FilePart(N_a_txt, CRLF)
P_nil == FilePart(N_a_txt, <<>>)
P_up2 == FilePart(N_up2, <<"h">>)
P_abs == FilePart(N_abs, <<"h">>)
P_sub == FilePart(N_sub, <<"h">>)
P_fld == FieldPart(<<"h">>)
P_raw == NoSepPart(N_a_txt, <<"h">>)

\* the first parts of the two-part uploads
FirstParts == { P_a_h, P_exe, P_big, P_nil, P_fld, P_raw }

\* an upload: the parts the client sends and the outcomes of the writes
Uploads ==
    {<<<<p>>, <<>>>> : p \in { P_a_h, P_a_k, P_exe, P_big, P_lf, P_hkh, P_nl, P_nil,
                              P_up2, P_abs, P_sub, P_fld, P_raw }} \cup
    {<<<<p, P_a_k>>, <<>>>> : p \in FirstParts} \cup
    {<<<<P_a_k, p>>, <<>>>> : p \in {P_exe, P_big}} \cup
    {<<<<P_a_h>>, io>> : io \in {<<"open">>, <<"write">>}} \cup
    {<<<<P_a_h, P_a_k>>, io>> : io \in {<<"open">>, <<"write">>, <<"ok", "open">>}} \cup
    {<<<<p, P_a_k>>, <<"open">>>> : p \in {P_exe, P_big}}

\* a refused POST: the Content-Type header and whether a body length is declared
BadPosts == { <<CT_json, TRUE>>, <<CT_noboundary, TRUE>>, <<CT_multipart, FALSE>> }

PostInputs ==
    {<<CT_multipart, TRUE, u[1]>> : u \in Uploads} \cup {<<b[1], b[2], <<P_a_h, P_a_k>>>> : b \in BadPosts}

Sent(parts) == EncodeBody(parts, ClientBoundary)

\* what do_POST reads of each request enumerated
Read ==
    [i \in PostInputs |->
        ReadRequest(i[1], IF i[2] THEN Len(Sent(i[3])) ELSE 0, Sent(i[3]))]

PostReq(ctype, clen, parts, io) ==
    [NoReq EXCEPT !.method = "POST", !.path = SEP, !.ctype = ctype, !.clen = clen,
                  !.parts = parts, !.io = io]

\* the names asked of /download/ and /delete/
GetNames ==
    { N_a_txt, N_a_1_txt,
      <<".", ".", "/", "s">>,
      <<".", ".", "/", "n">>,
      <<"%", "2", "e", "%", "2", "e", "/", "s">>,
      <<"/", "s">>,
      <<".", ".", "/", "u", "p", "_", "o", "/", "x">>,
      <<"d">> }

-----------------------------------------------------------------------------
(* The server *)

\* the files outside the storage root when the server starts; the root is empty
OutsideFiles ==
    [p \in { <<"/", "s">>, <<"/", "u", "p", "_", "o", "/", "x">> } |-> <<"s">>]

NotEvaluated == [done |-> FALSE, plain |-> FALSE, upper |-> FALSE, lower |-> FALSE]

\* the connections of a server that has just started: no client is connected
Clients == 1..MaxClients

NoConn == [st |-> "idle", method |-> "", sent |-> FALSE]

NoConns == [c \in Clients |-> NoConn]

\* format_file_size not called yet
NotFormatted == [done |-> FALSE, text |-> <<>>]

Init ==
    /\ fs = OutsideFiles
    /\ before = OutsideFiles
    /\ req = NoReq
    /\ resp = NoResp
    /\ log = <<>>
    /\ fname = <<>>
    /\ allowed = NotEvaluated
    /\ file_size = 0
    /\ formatted = NotFormatted
    /\ conns = NoConns
    /\ backlog = <<>>
    /\ serving = 0

\* where each request path enumerated leads
DownloadAt == [name \in GetNames |-> Locate(DownloadPrefix \o name, 10)]
DeleteAt   == [name \in GetNames |-> Locate(DeletePrefix \o name, 8)]

\* do_GET, path /download/<name>
Download ==
    \E name \in GetNames, out \in {"ok", "open"} :
        \E r \in {serve_file_download(fs, DownloadAt[name], out)} :
            /\ out = "ok" \/ Passes(fs, DownloadAt[name])
            /\ req' = GetReqIo(DownloadPrefix \o name, out)
            /\ resp' = r[1]
            /\ log' = r[2]
            /\ before' = fs
            /\ UNCHANGED <<fs, otherVars>>

\* do_GET, path /delete/<name>
Delete ==
    \E name \in GetNames, out \in {"ok", "remove"} :
        \E r \in {delete_file(fs, DeleteAt[name], out)} :
            /\ out = "ok" \/ Passes(fs, DeleteAt[name])
            /\ req' = GetReqIo(DeletePrefix \o name, out)
            /\ resp' = r[1]
            /\ log' = r[2]
            /\ fs' = r[3]
            /\ before' = fs
            /\ UNCHANGED otherVars

\* do_POST of a multipart upload
Upload ==
    \E stored \in {Cardinality(RootFiles(fs))}, u \in Uploads :
        /\ stored + Len(u[1]) <= MaxFiles
        /\ \E r \in {do_POST(fs, Read[<<CT_multipart, TRUE, u[1]>>], u[2])} :
            /\ req' = PostReq(CT_multipart, Len(Sent(u[1])), u[1], u[2])
            /\ resp' = r[1]
            /\ log' = r[2]
            /\ fs' = r[3]
            /\ before' = fs
            /\ UNCHANGED otherVars

\* do_POST of a request the handler refuses before it reads the body
BadUpload ==
    \E b \in BadPosts :
        \E r \in {do_POST(fs, Read[<<b[1], b[2], <<P_a_h, P_a_k>>>>], <<>>)} :
            /\ req' = PostReq(b[1], IF b[2] THEN Len(Sent(<<P_a_h, P_a_k>>)) ELSE 0, <<P_a_h, P_a_k>>, <<>>)
            /\ resp' = r[1]
            /\ log' = r[2]
            /\ fs' = r[3]
            /\ before' = fs
            /\ UNCHANGED otherVars

Next == Download \/ Delete \/ Upload \/ BadUpload

Spec == Init /\ [][Next]_vars

-----------------------------------------------------------------------------
(* is_allowed_file on its own: every name up to MaxNameLen characters over a small *)
(* alphabet, and the names with each allowed extension in both cases              *)

NameChars == {"a", ".", "t", "x", "T", "X"}

RECURSIVE NamesUpTo(_)
NamesUpTo(n) ==
    IF n = 0 THEN {<<>>}
    ELSE LET shorter == NamesUpTo(n - 1)
         IN  shorter \cup {Append(w, c) : w \in shorter, c \in NameChars}

N_a_TXT    == <<"a", ".", "T", "X", "T">>
N_a_EXE    == <<"a", ".", "E", "X", "E">>
N_test_txt == <<"t", "e", "s", "t", ".", "t", "x", "t">>
N_test_exe == <<"t", "e", "s", "t", ".", "e", "x", "e">>
N_a_tar_gz == <<"a", ".", "t", "a", "r", ".", "g", "z">>

CheckedNames ==
    NamesUpTo(MaxNameLen) \cup
    {<<"a">> \o ext : ext \in ALLOWED_EXTENSIONS} \cup
    {<<"A">> \o upper(ext) : ext \in ALLOWED_EXTENSIONS} \cup
    {Tail(ext) : ext \in ALLOWED_EXTENSIONS} \cup
    { N_a_txt, N_a_TXT, N_a_EXE, N_v_exe, N_test_txt, N_test_exe, N_a_tar_gz, N_dot_txt,
      <<"a", ".", "t", "x", "t", ".", "e", "x", "e">>, <<"a", ".", "t", "x", "t", ".">> }

InitAllowed ==
    /\ fs = OutsideFiles
    /\ before = OutsideFiles
    /\ req = NoReq
    /\ resp = NoResp
    /\ log = <<>>
    /\ fname \in CheckedNames
    /\ allowed = NotEvaluated
    /\ file_size = 0
    /\ formatted = NotFormatted
    /\ conns = NoConns
    /\ backlog = <<>>
    /\ serving = 0

\* is_allowed_file(fname), and of the same name in upper and in lower case
Evaluate ==
    /\ ~allowed.done
    /\ allowed' = [done |-> TRUE, plain |-> is_allowed_file(fname),
                   upper |-> is_allowed_file(upper(fname)),
                   lower |-> is_allowed_file(lower(fname))]
    /\ UNCHANGED <<handlerVars, fname, file_size, formatted, serveVars>>

NextAllowed == Evaluate

SpecAllowed == InitAllowed /\ [][NextAllowed]_vars

-----------------------------------------------------------------------------
(* The main page and its links: files of several names are uploaded, listed, and *)
(* downloaded and deleted through the links the list shows for them              *)

N_B_txt  == <<"B", ".", "t", "x", "t">>
N_aA_txt == <<"a", "A", ".", "t", "x", "t">>

\* the one-part uploads
NamedParts ==
    { FilePart(N_a_txt, <<"h">>), FilePart(N_B_txt, <<"k", "k">>),
      FilePart(N_pct, <<"h">>), FilePart(N_aA_txt, <<"k">>) }

\* what do_POST reads of each
ReadNamed ==
    [p \in NamedParts |-> ReadRequest(CT_multipart, Len(Sent(<<p>>)), Sent(<<p>>))]

\* the storage root holds a subdirectory with a file in it when the server starts
InitialFiles ==
    [q \in DOMAIN OutsideFiles \cup {UPLOAD_DIR \o <<"/", "d", "/", "y">>} |-> <<"s">>]

InitNames ==
    /\ fs = InitialFiles
    /\ before = InitialFiles
    /\ req = NoReq
    /\ resp = NoResp
    /\ log = <<>>
    /\ fname = <<>>
    /\ allowed = NotEvaluated
    /\ file_size = 0
    /\ formatted = NotFormatted
    /\ conns = NoConns
    /\ backlog = <<>>
    /\ serving = 0

\* do_POST of a one-part upload
UploadNamed ==
    \E p \in NamedParts :
        /\ Cardinality(RootFiles(fs)) + 1 <= MaxFiles
        /\ \E r \in {do_POST(fs, ReadNamed[p], <<>>)} :
            /\ req' = PostReq(CT_multipart, Len(Sent(<<p>>)), <<p>>, <<>>)
            /\ resp' = r[1]
            /\ log' = r[2]
            /\ fs' = r[3]
            /\ before' = fs
            /\ UNCHANGED otherVars

\* do_GET, path /
MainPage ==
    \E listdir \in Orders(Entries(fs)) :
        /\ req' = GetReq(SEP)
        /\ resp' = serve_main_page(fs, listdir)
        /\ log' = <<Call("listdir", UPLOAD_DIR, UPLOAD_DIR)>>
        /\ before' = fs
        /\ UNCHANGED <<fs, otherVars>>

\* do_GET, the path the Download link of a file of the list (the links are the same
\* in whatever order os.listdir returns files of different names)
FollowDownload ==
    \E page \in {serve_main_page(fs, SomeOrder(Entries(fs)))} :
        \E i \in 1..Len(page.links) :
            \E r \in {serve_file_download(fs, Locate(page.links[i].download, 10), "ok")} :
                /\ req' = GetReqIo(page.links[i].download, "ok")
                /\ resp' = r[1]
                /\ log' = r[2]
                /\ before' = fs
                /\ UNCHANGED <<fs, otherVars>>

\* do_GET, the path the Delete link of a listed file
FollowDelete ==
    \E page \in {serve_main_page(fs, SomeOrder(Entries(fs)))} :
        \E i \in 1..Len(page.links) :
            \E r \in {delete_file(fs, Locate(page.links[i].delete, 8), "ok")} :
                /\ req' = GetReqIo(page.links[i].delete, "ok")
                /\ resp' = r[1]
                /\ log' = r[2]
                /\ fs' = r[3]
                /\ before' = fs
                /\ UNCHANGED otherVars

NextNames == UploadNamed \/ MainPage \/ FollowDownload \/ FollowDelete

SpecNames == InitNames /\ [][NextNames]_vars

-----------------------------------------------------------------------------
(* Names that are stored again: files named a.txt and .txt (a name that is all   *)
(* extension) are uploaded, one or two to a request, listed and deleted          *)

DottedParts ==
    { FilePart(N_dot_txt, <<"h">>), FilePart(N_dot_txt, <<"k">>), FilePart(N_a_txt, <<"h">>) }

\* the uploads: one part, or two parts
DottedUploads == {<<p>> : p \in DottedParts} \cup {<<p, q>> : p, q \in DottedParts}

\* what do_POST reads of each
ReadDotted ==
    [u \in DottedUploads |-> ReadRequest(CT_multipart, Len(Sent(u)), Sent(u))]

\* do_POST of such an upload
UploadDotted ==
    \E u \in DottedUploads :
        /\ Cardinality(RootFiles(fs)) + Len(u) <= MaxFiles
        /\ \E r \in {do_POST(fs, ReadDotted[u], <<>>)} :
            /\ req' = PostReq(CT_multipart, Len(Sent(u)), u, <<>>)
            /\ resp' = r[1]
            /\ log' = r[2]
            /\ fs' = r[3]
            /\ before' = fs
            /\ UNCHANGED otherVars

NextDotted == UploadDotted \/ MainPage \/ FollowDownload \/ FollowDelete

SpecDotted == InitNames /\ [][NextDotted]_vars

-----------------------------------------------------------------------------
(* The accept loop: HTTPServer(('', PORT), SNBitRequestHandler).serve_forever().   *)
(* HTTPServer is socketserver.TCPServer without a threading or forking mix-in:   *)
(* serve_forever accepts one connection, runs its handler to the end in the same *)
(* thread, and only then accepts the next.  A connection is "idle" (not made),    *)
(* "waiting" (made, request line and headers sent, held by the listening socket), *)
(* "handling" (accepted, its handler running) or "answered".                      *)

InitServe ==
    /\ fs = OutsideFiles
    /\ before = OutsideFiles
    /\ req = NoReq
    /\ resp = NoResp
    /\ log = <<>>
    /\ fname = <<>>
    /\ allowed = NotEvaluated
    /\ file_size = 0
    /\ formatted = NotFormatted
    /\ conns = NoConns
    /\ backlog = <<>>
    /\ serving = 0

\* a client connects and sends its request line and headers; the body that the
\* Content-Length of a POST declares is not sent yet
Connect ==
    \E c \in Clients, method \in {"GET", "POST"} :
        /\ conns[c].st = "idle"
        /\ conns' = [conns EXCEPT ![c] = [st |-> "waiting", method |-> method,
                                          sent |-> method = "GET"]]
        /\ backlog' = Append(backlog, c)
        /\ UNCHANGED <<handlerVars, fname, allowed, file_size, formatted, serving>>

\* a client sends the body it declared
SendBody ==
    \E c \in Clients :
        /\ conns[c].st \in {"waiting", "handling"}
        /\ ~conns[c].sent
        /\ conns' = [conns EXCEPT ![c].sent = TRUE]
        /\ UNCHANGED <<handlerVars, fname, allowed, file_size, formatted, backlog, serving>>

\* serve_forever: with no handler running, the next connection is accepted and its
\* handler started
Accept ==
    /\ serving = 0
    /\ backlog # <<>>
    /\ serving' = Head(backlog)
    /\ backlog' = Tail(backlog)
    /\ conns' = [conns EXCEPT ![Head(backlog)].st = "handling"]
    /\ UNCHANGED <<handlerVars, fname, allowed, file_size, formatted>>

\* the handler runs to its end: do_GET at once, do_POST once
\* self.rfile.read(content_length) has the bytes the client declared; the response
\* is sent and the server is back in its loop
Answer ==
    /\ serving # 0
    /\ conns[serving].sent
    /\ conns' = [conns EXCEPT ![serving].st = "answered"]
    /\ serving' = 0
    /\ UNCHANGED <<handlerVars, fname, allowed, file_size, formatted, backlog>>

\* an answered client closes its connection (and may connect again)
Close ==
    \E c \in Clients :
        /\ conns[c].st = "answered"
        /\ conns' = [conns EXCEPT ![c] = NoConn]
        /\ UNCHANGED <<handlerVars, fname, allowed, file_size, formatted, backlog, serving>>

NextServe == Connect \/ SendBody \/ Accept \/ Answer \/ Close

\* the server takes its steps when it can; the clients need not
SpecServe == InitServe /\ [][NextServe]_vars /\ WF_vars(Accept) /\ WF_vars(Answer)

-----------------------------------------------------------------------------
(* format_file_size on its own: the sizes up to MaxOffset bytes and those within *)
(* MaxOffset bytes of each unit boundary, and two sizes a tenth is a tie for     *)

CheckedSizes ==
    (0..MaxOffset) \cup
    UNION {(Pow1024(i) - MaxOffset)..(Pow1024(i) + MaxOffset) : i \in 1..(Len(size_names) - 1)} \cup
    {1280, 1792}

InitSize ==
    /\ fs = OutsideFiles
    /\ before = OutsideFiles
    /\ req = NoReq
    /\ resp = NoResp
    /\ log = <<>>
    /\ fname = <<>>
    /\ allowed = NotEvaluated
    /\ file_size \in CheckedSizes
    /\ formatted = NotFormatted
    /\ conns = NoConns
    /\ backlog = <<>>
    /\ serving = 0

\* 'size': format_file_size(file_size)
Format ==
    /\ ~formatted.done
    /\ formatted' = [done |-> TRUE, text |-> format_file_size(file_size)]
    /\ UNCHANGED <<handlerVars, fname, allowed, file_size, serveVars>>

NextSize == Format

SpecSize == InitSize /\ [][NextSize]_vars

-----------------------------------------------------------------------------
(* What the claims speak of *)

\* the request served last is a GET of /download/<name> or /delete/<name>
IsDownload == req.method = "GET" /\ startswith(req.path, DownloadPrefix)
IsDelete   == req.method = "GET" /\ startswith(req.path, DeletePrefix)

\* the name of that request, decoded, joined to the storage root and made canonical
AskedPath ==
    os_path_abspath(os_path_join(UPLOAD_DIR,
        unquote(Drop(req.path, IF IsDownload THEN 10 ELSE 8))))

\* the request served last is an upload the handler read and answered in JSON
IsUpload == req.method = "POST" /\ resp.json

\* the path of the file stored under a final name
StoredAt(name) == UPLOAD_DIR \o SEP \o name

\* the name ends, letter case aside, with one of the allowed extensions
HasAllowedExt(name) ==
    \E ext \in ALLOWED_EXTENSIONS :
        /\ Len(ext) <= Len(name)
        /\ \A i \in 1..Len(ext) : LowerChar(name[Len(name) - Len(ext) + i]) = ext[i]

\* the name of a part with the directories the client put before it removed
BareName(p) ==
    LET n == p.filename
    IN  IF \E i \in 1..Len(n) : n[i] = "/"
        THEN SubSeq(n, 1 + (CHOOSE i \in 1..Len(n) : n[i] = "/" /\ \A j \in (i + 1)..Len(n) : n[j] # "/"), Len(n))
        ELSE n

\* the content of a part as the handler takes it: without the CR and LF bytes at
\* its end (what is stored of a content that ends in CR or LF is the matter of C3)
Taken(p) ==
    LET keep == {i \in 1..Len(p.content) : p.content[i] \notin {CR, LF}}
    IN  IF keep = {} THEN <<>>
        ELSE SubSeq(p.content, 1, CHOOSE i \in keep : \A j \in keep : j <= i)

\* a part as the client sent it: refused for its extension, refused for its size,
\* or accepted for storing; a part without filename, without blank line or without
\* content is none of these (the handler skips it)
ExtRejected(p)  == p.kind = "file" /\ Taken(p) # <<>> /\ ~HasAllowedExt(BareName(p))
SizeRejected(p) == p.kind = "file" /\ HasAllowedExt(BareName(p)) /\ Len(Taken(p)) > MAX_FILE_SIZE
Rejected(p)     == ExtRejected(p) \/ SizeRejected(p)
Storable(p)     == /\ p.kind = "file" /\ HasAllowedExt(BareName(p))
                   /\ Taken(p) # <<>> /\ Len(Taken(p)) <= MAX_FILE_SIZE

\* the outcome of the write of part i of the request: every storable part is written once
WriteOutcome(r, i) ==
    LET n == Cardinality({j \in 1..i : Storable(r.parts[j])})
    IN  IF n <= Len(r.io) THEN r.io[n] ELSE "ok"

\* the parts of the request that fail, and those that are fit and whose write succeeds
Failing(r) == {i \in 1..Len(r.parts) :
                  \/ Rejected(r.parts[i])
                  \/ (Storable(r.parts[i]) /\ WriteOutcome(r, i) # "ok")}
Good(r)    == {i \in 1..Len(r.parts) : Storable(r.parts[i]) /\ WriteOutcome(r, i) = "ok"}

\* the k-th smallest element of a set of numbers
RECURSIVE Nth(_, _)
Nth(S, k) ==
    LET m == CHOOSE x \in S : \A y \in S : x <= y
    IN  IF k = 1 THEN m ELSE Nth(S \ {m}, k - 1)

\* name is original, or original with _<number> put before a dot of it or at its end
Numbered(name, original) ==
    \/ name = original
    \/ \E cut \in 0..Len(original), k \in 1..(MaxFiles + 2) :
          /\ cut = Len(original) \/ original[cut + 1] = "."
          /\ name = Take(original, cut) \o <<"_">> \o ToStr(k) \o Drop(original, cut)

-----------------------------------------------------------------------------
(* Claims *)

\* C1: a download or delete goes through only when the canonical path of the name
\* lies below the storage root: no file outside the root is ever opened for reading
\* or removed.  (The code fails this: see /download/../up_o/x.)
C1_ServedOrRemovedInsideRoot ==
    \A i \in 1..Len(log) :
        log[i].op \in {"open_rb", "remove"} => InsideRoot(log[i].at)

\* C2: every download or delete whose name resolves outside the storage root is
\* answered 403, whether or not anything exists there.  (The code answers 404 when
\* nothing exists there, and 200 or 302 for a sibling whose path extends the root's.)
C2_TraversalAnswered403 ==
    (IsDownload \/ IsDelete) /\ ~InsideRoot(AskedPath) /\ AskedPath # UPLOAD_DIR
        => resp.status = 403

\* C3: when every part of an upload is accepted, each stored file holds exactly the
\* bytes the client put between the blank line and the CRLF that ends the part.
\* (The code strips every trailing CR and LF of the content.)
C3_StoredBytesAreThePartBytes ==
    IsUpload /\ Len(resp.uploaded) = Len(req.parts)
        => \A i \in 1..Len(req.parts) :
              /\ StoredAt(resp.uploaded[i]) \in DOMAIN fs
              /\ fs[StoredAt(resp.uploaded[i])] = req.parts[i].content

\* C4: an upload never changes or removes a file that is already stored; the names it
\* reports are pairwise distinct, were all free before, and each is the name of one
\* of its parts or that name with _1, _2, ... before the extension; N accepted parts
\* of one name, all written, give N names.
C4_NewNumberedNamesNoOverwrite ==
    IsUpload =>
        /\ \A q \in DOMAIN before : q \in DOMAIN fs /\ fs[q] = before[q]
        /\ \A i \in 1..Len(resp.uploaded) :
              /\ StoredAt(resp.uploaded[i]) \notin DOMAIN before
              /\ StoredAt(resp.uploaded[i]) \in DOMAIN fs
              /\ \E j \in 1..Len(req.parts) :
                    Numbered(resp.uploaded[i], BareName(req.parts[j]))
              /\ \A j \in 1..Len(resp.uploaded) :
                    i # j => resp.uploaded[i] # resp.uploaded[j]
        /\ (Good(req) = 1..Len(req.parts) /\ \A j \in 1..Len(req.parts) :
                  BareName(req.parts[j]) = BareName(req.parts[1]))
              => Len(resp.uploaded) = Len(req.parts)

\* C4 witness: the same name sent twice in one request while it is already stored:
\* the third and fourth names of the series are used
C4_Witness ==
    /\ IsUpload /\ req.parts = <<P_a_h, P_a_k>>
    /\ resp.uploaded = <<N_a_1_txt, <<"a", "_", "2", ".", "t", "x", "t">> >>

\* C5: every file an upload creates or writes lies directly in the storage root,
\* whatever directories the client put in the filename.
C5_UploadsStayInRoot ==
    /\ \A i \in 1..Len(log) : log[i].op = "open_wb" => DirectlyInRoot(log[i].at)
    /\ \A q \in DOMAIN fs : q \in DOMAIN OutsideFiles \/ DirectlyInRoot(q)

\* C5 witness: a part named ../../a.txt was stored
C5_Witness ==
    /\ IsUpload /\ req.parts = <<P_up2>> /\ Len(resp.uploaded) = 1
    /\ \E i \in 1..Len(log) : log[i].op = "open_wb"

\* C6: when a part of an upload is refused or its write fails, every other part that
\* is fit and whose write succeeds is stored and listed, in the order sent.
C6_FailingPartStopsNothing ==
    IsUpload /\ Failing(req) # {}
        => /\ Len(resp.uploaded) = Cardinality(Good(req))
           /\ \A k \in 1..Cardinality(Good(req)) :
                 /\ k <= Len(resp.uploaded)
                 /\ StoredAt(resp.uploaded[k]) \in DOMAIN fs
                 /\ fs[StoredAt(resp.uploaded[k])] = Taken(req.parts[Nth(Good(req), k)])

\* C6 witness: the first part is refused (or its write fails) and the second is stored
C6_Witness ==
    /\ IsUpload /\ Len(req.parts) = 2
    /\ 1 \in Failing(req) /\ 2 \in Good(req)
    /\ Len(resp.uploaded) = 1

\* C7 as stated: success exactly when a file was saved, 200 exactly when no error,
\* and 207 exactly when a part failed while another was saved.  (The code answers
\* 207 also when every part failed.)
C7_Original ==
    IsUpload =>
        /\ resp.success = (Len(resp.uploaded) > 0)
        /\ (resp.status = 200) = (resp.errors = <<>>)
        /\ (resp.status = 207) = (resp.errors # <<>> /\ Len(resp.uploaded) > 0)

\* C7 as amended: success exactly when a file was saved, 200 exactly when no error
\* was recorded, 207 exactly when at least one error was recorded, whether or not
\* another part was saved.  The files saved are the good parts, the errors the
\* failing ones.
C7_StatusAndSuccess ==
    IsUpload =>
        /\ resp.success = (\E i \in 1..Len(resp.uploaded) : StoredAt(resp.uploaded[i]) \in DOMAIN fs)
        /\ resp.success = (Len(resp.uploaded) > 0)
        /\ (resp.status = 200) = (resp.errors = <<>>)
        /\ (resp.status = 207) = (resp.errors # <<>>)
        /\ (Failing(req) # {}) => resp.status = 207

\* C7 witness: the only part is refused: 207 and success = false
C7_Witness ==
    IsUpload /\ req.parts = <<P_exe>> /\ resp.status = 207 /\ ~resp.success

\* C8: a part refused for its extension or its size creates no file and changes
\* nothing; it adds exactly one error, "File type not allowed: <name>" for an
\* extension; a request whose only part is refused answers success = false with
\* nothing uploaded.
C8_RejectedPartChangesNothing ==
    (IsUpload /\ req.io = <<>> /\ \E i \in 1..Len(req.parts) : Rejected(req.parts[i])) =>
        LET refused == {i \in 1..Len(req.parts) : Rejected(req.parts[i])}
        IN  /\ \A q \in DOMAIN before : q \in DOMAIN fs /\ fs[q] = before[q]
            /\ Cardinality(DOMAIN fs \ DOMAIN before) = Cardinality(Good(req))
            /\ Len(resp.errors) = Cardinality(refused)
            /\ \A k \in 1..Cardinality(refused) :
                  ExtRejected(req.parts[Nth(refused, k)]) =>
                      /\ k <= Len(resp.errors)
                      /\ resp.errors[k] = <<"File type not allowed: ">>
                                          \o BareName(req.parts[Nth(refused, k)])
            /\ Len(req.parts) = 1 =>
                  fs = before /\ ~resp.success /\ resp.uploaded = <<>>

\* C8 witness: an upload whose only part is too large was answered
C8_Witness ==
    /\ IsUpload /\ req.parts = <<P_big>>
    /\ Len(resp.errors) = 1 /\ RootFiles(fs) # {}

\* C9: a POST that is not multipart/form-data, or names no boundary, or declares a
\* body length of zero is answered 400 with no filesystem call and no change.
C9_BadRequestRefused ==
    (req.method = "POST"
        /\ (\/ ~startswith(req.ctype, <<"multipart/form-data">>)
            \/ ~(\E i \in 1..Len(req.ctype) : req.ctype[i] = "boundary=")
            \/ req.clen = 0)) =>
        /\ resp.status = 400
        /\ ~resp.json /\ resp.uploaded = <<>>
        /\ log = <<>>
        /\ fs = before

\* C9 witness: a multipart POST declaring no body was refused while files were stored
C9_Witness ==
    /\ req.method = "POST" /\ req.ctype = CT_multipart /\ req.clen = 0
    /\ resp.status = 400 /\ RootFiles(fs) # {}

\* C10: is_allowed_file is true exactly for the names that end, letter case aside,
\* with an allowed extension; a.txt and test.txt are allowed, a.EXE, test.exe and
\* a.tar.gz are not; the case of the name's letters never changes the result.
C10_AllowedByExtension ==
    allowed.done =>
        /\ allowed.plain = HasAllowedExt(fname)
        /\ allowed.upper = allowed.plain
        /\ allowed.lower = allowed.plain
        /\ fname \in {N_a_txt, N_test_txt} => allowed.plain
        /\ fname \in {N_a_EXE, N_test_exe, N_a_tar_gz} => ~allowed.plain

\* C10 witness: a name with an upper-case extension was found allowed
C10_Witness ==
    allowed.done /\ fname = N_a_TXT /\ allowed.plain

-----------------------------------------------------------------------------
\* the number a formatted size shows before its decimal point
RECURSIVE ParseNat(_)
ParseNat(digits) ==
    IF digits = <<>> THEN 0
    ELSE 10 * ParseNat(Take(digits, Len(digits) - 1)) +
         (CHOOSE d \in 0..9 : DigitChars[d + 1] = digits[Len(digits)])

ShownWhole == ParseNat(Take(formatted.text, find(formatted.text, <<".">>)))

\* the unit a formatted size ends with
ShownUnit == formatted.text[Len(formatted.text)]

\* the largest unit that file_size holds at least one of
RECURSIVE UnitOf(_, _)
UnitOf(size, i) ==
    IF i < Len(size_names) - 1 /\ size >= Pow1024(i + 1) THEN UnitOf(size, i + 1) ELSE i

\* C11: format_file_size gives "0B" for 0, "1.0 KB" for 1024 and "1.0 MB" for
\* 1048576; every other size is shown in the largest unit (B, KB, MB, GB) it holds at
\* least one of, and the number shown is below 1024 unless the unit is the last.
C11_RollsOverBelow1024 ==
    formatted.done =>
        /\ file_size = 0 => formatted.text = <<"0", "B">>
        /\ file_size = 1024 => formatted.text = <<"1", ".", "0", " ", "KB">>
        /\ file_size = 1048576 => formatted.text = <<"1", ".", "0", " ", "MB">>
        /\ file_size > 0 =>
             /\ ShownUnit = size_names[UnitOf(file_size, 0) + 1]
             /\ ShownUnit # size_names[Len(size_names)] => ShownWhole < 1024


\* C12: a download of a name that lies directly in the storage root, when the read
\* does not fail, is answered 404 if no regular file has that name (nothing there, or
\* a directory), and otherwise 200 with the size of the file as Content-Length and
\* its bytes as body, written in order in pieces of 1 to CHUNK_SIZE bytes; the
\* filesystem is as it was.
C12_DownloadStreamsTheFile ==
    IsDownload /\ DirectlyInRoot(AskedPath) /\ req.io = <<"ok">> =>
        /\ fs = before
        /\ IF AskedPath \notin DOMAIN before
           THEN resp.status = 404 /\ resp.body = <<>>
           ELSE /\ resp.status = 200
                /\ resp.clen = Len(before[AskedPath])
                /\ resp.body = before[AskedPath]
                /\ Written(resp.chunks) = before[AskedPath]
                /\ \A i \in 1..Len(resp.chunks) :
                      Len(resp.chunks[i]) >= 1 /\ Len(resp.chunks[i]) <= CHUNK_SIZE

\* C12 witness: a stored file longer than one piece is downloaded in two pieces
C12_Witness ==
    /\ IsDownload /\ DirectlyInRoot(AskedPath) /\ req.io = <<"ok">>
    /\ resp.status = 200
    /\ Len(resp.chunks) = 2
    /\ resp.body = <<"h", "k", "h">>

\* C13: a delete of a name that lies directly in the storage root, when os.remove
\* does not fail: if a regular file has that name, exactly that file is gone, every
\* other file is there with the bytes it had, and the answer is 302 with Location
\* "/"; if none has, the answer is 404 and the filesystem is as it was.
C13_DeleteRemovesExactlyTheFile ==
    IsDelete /\ DirectlyInRoot(AskedPath) /\ req.io = <<"ok">> =>
        IF AskedPath \in DOMAIN before
        THEN /\ resp.status = 302 /\ resp.location = <<"/">>
             /\ DOMAIN fs = DOMAIN before \ {AskedPath}
             /\ \A q \in DOMAIN fs : fs[q] = before[q]
        ELSE resp.status = 404 /\ fs = before

\* C13 witness: one of two stored files is deleted and the other one stays
C13_Witness ==
    /\ IsDelete /\ DirectlyInRoot(AskedPath) /\ req.io = <<"ok">>
    /\ resp.status = 302
    /\ AskedPath \in DOMAIN before /\ AskedPath \notin DOMAIN fs
    /\ RootFiles(fs) # {}

\* the request served last is a GET of the main page
IsMainPage == req.method = "GET" /\ req.path = SEP

\* a is not after b when the letter case is set aside: the lowered a is a prefix of
\* the lowered b, or has the smaller character where they first differ
CaselessNotAfter(a, b) ==
    LET la == lower(a)
        lb == lower(b)
    IN  \/ (Len(la) <= Len(lb) /\ \A k \in 1..Len(la) : la[k] = lb[k])
        \/ \E k \in 1..Len(la) :
              /\ k <= Len(lb)
              /\ \A m \in 1..(k - 1) : la[m] = lb[m]
              /\ ord(la[k]) < ord(lb[k])

\* C14: the file list of the main page holds one entry for each regular file directly
\* in the storage root and no other (no directory, no file of a subdirectory), each
\* with the number of bytes of its file, in the order of the names with the letter
\* case set aside.
C14_ListingIsTheRootFilesInOrder ==
    IsMainPage =>
        /\ resp.status = 200
        /\ Len(resp.files) = Cardinality(RootFiles(fs))
        /\ {StoredAt(resp.files[i].name) : i \in 1..Len(resp.files)} = RootFiles(fs)
        /\ \A i \in 1..Len(resp.files) :
              resp.files[i].size_bytes = Len(fs[StoredAt(resp.files[i].name)])
        /\ \A i, j \in 1..Len(resp.files) :
              i < j => CaselessNotAfter(resp.files[i].name, resp.files[j].name)

\* C14 witness: a.txt is listed before B.txt, whose code points put it first, and
\* the subdirectory d with its file y is there and not listed
C14_Witness ==
    /\ IsMainPage
    /\ UPLOAD_DIR \o <<"/", "d", "/", "y">> \in DOMAIN fs
    /\ \E i, j \in 1..Len(resp.files) :
          i < j /\ resp.files[i].name = N_a_txt /\ resp.files[j].name = N_B_txt

\* C15: in a download or delete every filesystem call made with the path of the
\* client's name (existence test, stat, open, remove) comes after the confinement
\* check of that path.  (The code tests os.path.exists and os.path.isfile first.)
C15_CheckBeforeAnyAccess ==
    (IsDownload \/ IsDelete) =>
        \A i \in 1..Len(log) :
            log[i].op # "check" => \E j \in 1..(i - 1) : log[j].op = "check"

\* C16: every file an upload leaves in the storage root holds the complete content of
\* one of its parts (as the handler takes it): when a write fails partway, no file
\* remains under the name.  (The code leaves the file it opened, with the bytes
\* written so far.)
C16_NoPartialFileVisible ==
    IsUpload =>
        \A q \in RootFiles(fs) \ DOMAIN before :
            \E i \in 1..Len(req.parts) : fs[q] = Taken(req.parts[i])

\* C17: a request that has arrived in full is answered, whatever the other
\* connections do: a handler that waits for the body its client declared and has not
\* sent keeps no other request from being handled.  (HTTPServer runs one handler at
\* a time: nothing is accepted while a handler is blocked in rfile.read.)
C17_OthersAnsweredWhileOneBlocked ==
    \A c \in Clients :
        (conns[c].st = "waiting" /\ conns[c].sent) ~> (conns[c].st = "answered")

\* C18: when the open or the remove of a download or delete of a stored file raises,
\* the request is answered 500 and with nothing else.  (A download has sent its 200
\* status line and headers before it opens the file: the 500 follows them as the
\* body of a 200.)
C18_FailureAnswered500 ==
    (IsDownload \/ IsDelete) /\ DirectlyInRoot(AskedPath) /\ req.io # <<"ok">> =>
        resp.status = 500 /\ resp.late = 0

\* a part the handler is to pass over: a segment without the blank line between
\* headers and content, a form field (no filename), or a file part without content
Skippable(p) == p.kind \in {"nosep", "field"} \/ (p.kind = "file" /\ p.content = <<>>)

\* the request is a POST that passes the three checks made before the body is read
IsValidPost == req.method = "POST" /\ req.ctype = CT_multipart /\ req.clen > 0

\* C19: an upload with a segment that has no header/body separator, no filename or
\* no content is answered in JSON all the same; the segment adds no error and no
\* file: the errors are those of the refused and failed parts, the names reported
\* those of the other parts, and the new files exactly the names reported.
C19_SkippedSegmentIsNoError ==
    IsValidPost /\ (\E i \in 1..Len(req.parts) : Skippable(req.parts[i])) /\ req.io = <<>> =>
        /\ resp.json /\ resp.status \in {200, 207}
        /\ Len(resp.errors) = Cardinality(Failing(req))
        /\ Len(resp.uploaded) = Cardinality(Good(req))
        /\ RootFiles(fs) \ DOMAIN before =
              {StoredAt(resp.uploaded[i]) : i \in 1..Len(resp.uploaded)}
        /\ \A q \in DOMAIN before : q \in DOMAIN fs /\ fs[q] = before[q]

\* C19 witness: a segment without separator is followed by a file part, which is stored
C19_Witness ==
    /\ IsValidPost /\ req.parts = <<P_raw, P_a_k>>
    /\ resp.json /\ resp.status = 200
    /\ Len(resp.uploaded) = 1 /\ resp.errors = <<>>
    /\ fs[StoredAt(resp.uploaded[1])] = <<"k">>

\* the name in the path of the download or delete served last, as the path has it
LinkName == Drop(req.path, IF IsDownload THEN 10 ELSE 8)

\* C20: the link the main page shows for a stored file leads to that file: a GET of
\* /download/<name> with the name as stored is answered 200 with the bytes of that
\* file, and a GET of /delete/<name> removes that file and no other.  (The handlers
\* percent-decode the path and the links are not encoded: a%41.txt leads to aA.txt.)
C20_LinkLeadsToItsFile ==
    (IsDownload \/ IsDelete) /\ StoredAt(LinkName) \in DOMAIN before =>
        /\ IsDownload => resp.status = 200 /\ resp.body = before[StoredAt(LinkName)]
        /\ IsDelete => resp.status = 302 /\ DOMAIN fs = DOMAIN before \ {StoredAt(LinkName)}

\* C21: every name an upload reports, and every file it adds to the storage root,
\* ends with an allowed extension, the names made by the collision renaming
\* included.  (The renaming of a name that is all extension, .txt, puts the number
\* after it: .txt_1.)
C21_StoredNamesAreAllowed ==
    IsUpload =>
        /\ \A i \in 1..Len(resp.uploaded) : HasAllowedExt(resp.uploaded[i])
        /\ \A q \in RootFiles(fs) \ DOMAIN before :
              HasAllowedExt(Drop(q, Len(UPLOAD_DIR) + 1))

\* a part that carries a filename and at least one byte of content (bytes that are
\* CR or LF count)
Carrying(p) == p.kind = "file" /\ p.filename # <<>> /\ p.content # <<>>

\* C22: in the answer of an upload every part with a filename and at least one byte
\* of content has one outcome, a name in uploaded or a string in errors: the two
\* lists together are as long as there are such parts.  (A content of CR and LF
\* bytes only is stripped to nothing and the part passed over: see C3.)
C22_OneOutcomePerCarryingPart ==
    IsUpload =>
        Len(resp.uploaded) + Len(resp.errors) =
            Cardinality({i \in 1..Len(req.parts) : Carrying(req.parts[i])})

====
